---- MODULE Spec2Model ----
(***************************************************************************)
(* Model of the three tool functions of src/agent.py: get_weather,         *)
(* get_current_time and get_forecast.  Each invocation is a short state    *)
(* machine: the handler issues an HTTP request, blocks until the provider  *)
(* answers (or requests.get raises), and then runs to its return.          *)
(*                                                                         *)
(* Numbers: temperatures are fixed-point integers.  A Celsius reading is   *)
(* held in tenths of a degree (15.0 is 150); values handed to the ".1f"    *)
(* formatter are held in hundredths, so that C * 9/5 + 32 is exact.        *)
(* Strings are real strings: reports and error messages are built by       *)
(* concatenation as the f-strings of the source build them.                *)
(***************************************************************************)
EXTENDS Integers, Sequences, FiniteSets, TLC

VARIABLES
    OPENWEATHER_API_KEY,  \* module global read from the environment at load
    local_utcoffset,      \* UTC offset (seconds) of the process's local clock
    pc,                   \* position of the current invocation
    op,                   \* the tool being invoked ("none" when idle)
    city,                 \* its argument
    calls,                \* HTTP calls of the invocation, in issue order
    daily_forecasts,      \* get_forecast's local dict, as its items in order
    caught,               \* the exception the try block raised, if any
    result,               \* the dict handed back to the caller
    escaped               \* TRUE iff an exception propagated to the caller

vars == <<OPENWEATHER_API_KEY, local_utcoffset, pc, op, city, calls, daily_forecasts,
          caught, result, escaped>>

---------------------------------------------------------------------------
(* Bounds of the model *)

\* Celsius readings of the current-weather mock range over
\* -MaxTemp10 .. MaxTemp10 tenths of a degree.
MaxTemp10 == 180
\* Longest sample list of the general forecast mock.
MaxSamples == 2
\* Longest sample list of the aggregation mock.
MaxAggSamples == 3
\* Number of calendar days the ordering mock spreads its samples over.
NumDays == 7

---------------------------------------------------------------------------
(* Input domains *)

None == "None"
ApiKeys == {None, "", "k3y"}
LocalOffsets == {0, -18000}
Cities == {"London", "Paris"}
StatusCodes == {200, 401, 404, 500}
Descriptions == {"clear sky", "light rain"}
Temps10 == (-MaxTemp10)..MaxTemp10

ConnectionErrorText == "Connection refused"
JSONDecodeErrorText == "Expecting value: line 1 column 1 (char 0)"

SecondsPerDay == 24 * 3600
\* 2024-01-01 00:00:00 UTC
BaseDt == 19723 * SecondsPerDay

---------------------------------------------------------------------------
(* String and number helpers *)

Abs(x) == IF x < 0 THEN -x ELSE x

\* sub in s, as Python's `sub in s`
Contains(s, sub) ==
    \E i \in 1..(Len(s) - Len(sub) + 1) : SubSeq(s, i, i + Len(sub) - 1) = sub

\* format(x, ".1f") for x given in hundredths: round to the nearest tenth
\* (ties to even; no value the model formats is a tie), keep the sign of x.
Format1f(h) ==
    LET fl == h \div 10
        rem == h % 10
        r == IF rem > 5 \/ (rem = 5 /\ fl % 2 = 1) THEN fl + 1 ELSE fl
        a == Abs(r)
    IN  (IF h < 0 THEN "-" ELSE "") \o ToString(a \div 10) \o "." \o ToString(a % 10)

\* Mutant: 9/5 evaluated as an integer division
FahrenheitIntDiv(c100) == c100 * (9 \div 5) + 3200

\* (c * 9/5) + 32 for c in hundredths of a degree, in hundredths
Fahrenheit(c100) == (c100 * 9) \div 5 + 3200

Pad2(n) == IF n < 10 THEN "0" \o ToString(n) ELSE ToString(n)

\* Proleptic Gregorian date of day number z (days since 1970-01-01)
CivilFromDays(z) ==
    LET zz == z + 719468
        era == zz \div 146097
        doe == zz - era * 146097
        yoe == (doe - doe \div 1460 + doe \div 36524 - doe \div 146096) \div 365
        doy == doe - (365 * yoe + yoe \div 4 - yoe \div 100)
        mp == (5 * doy + 2) \div 153
        d == doy - (153 * mp + 2) \div 5 + 1
        m == IF mp < 10 THEN mp + 3 ELSE mp - 9
        y == yoe + era * 400 + (IF m <= 2 THEN 1 ELSE 0)
    IN  [year |-> y, month |-> m, day |-> d]

\* strftime('%Y-%m-%d') of the instant ts on a clock offset seconds east of UTC
StrfDate(ts, offset) ==
    LET c == CivilFromDays((ts + offset) \div SecondsPerDay)
    IN  ToString(c.year) \o "-" \o Pad2(c.month) \o "-" \o Pad2(c.day)

\* strftime('%H:%M:%S')
StrfTime(ts, offset) ==
    LET s == (ts + offset) % SecondsPerDay
    IN  Pad2(s \div 3600) \o ":" \o Pad2((s % 3600) \div 60) \o ":" \o Pad2(s % 60)

---------------------------------------------------------------------------
(* Provider behaviour: what requests.get does for one request *)

Pending == [kind |-> "pending", text |-> "", status_code |-> 0, body |-> <<>>]
Raises(text) == [kind |-> "exception", text |-> text, status_code |-> 0, body |-> <<>>]
Response(code, body) == [kind |-> "response", text |-> "", status_code |-> code, body |-> body]

NoBody(shape) == [shape |-> shape]
TransportFailures == {Raises(ConnectionErrorText)}
ErrorResponses == {Response(c, NoBody("error_json")) : c \in StatusCodes \ {200}}

\* Bodies of the current-weather endpoint: text that is not JSON, a JSON
\* object without "main", and {main: {temp}, weather: [{description}]}.
WeatherBodies ==
    {[shape |-> "not_json", temp |-> 0, description |-> ""],
     [shape |-> "no_main", temp |-> 0, description |-> ""]}
    \cup {[shape |-> "ok", temp |-> t, description |-> d] : t \in Temps10, d \in Descriptions}
WeatherOutcomes ==
    TransportFailures \cup ErrorResponses \cup {Response(200, b) : b \in WeatherBodies}

\* Bodies of the geocoding endpoint: not JSON, [], [{}] and [{lat, lon}].
GeoBodies ==
    {[shape |-> s, lat |-> 0, lon |-> 0] : s \in {"not_json", "empty_list", "no_lat"}}
    \cup {[shape |-> "ok", lat |-> 4885, lon |-> 235]}
GeoOutcomes ==
    TransportFailures \cup ErrorResponses \cup {Response(200, b) : b \in GeoBodies}

\* Bodies of the timezone endpoint: not JSON, {} and {status, zoneName}
\* (a FAILED answer with and without a zone name).
ZoneNames == {"Europe/Paris", "Europe/London", "Mars/Phobos"}
TzBodies ==
    {[shape |-> s, status |-> "", zoneName |-> ""] : s \in {"not_json", "no_status"}}
    \cup {[shape |-> "ok", status |-> "FAILED", zoneName |-> z] : z \in {"", "Europe/Paris"}}
    \cup {[shape |-> "ok", status |-> "OK", zoneName |-> z] : z \in ZoneNames}
TzOutcomes ==
    TransportFailures \cup ErrorResponses \cup {Response(200, b) : b \in TzBodies}

\* Readings of datetime.now(): two instants of 2024-01-01 (UTC)
ClockInstants == {BaseDt + 43200, BaseDt + 86399}

---------------------------------------------------------------------------
(* Results *)

\* Mutant: the success dict also carries an (empty) error_message
SuccessWithErrorField(report) == [status |-> "success", report |-> report, error_message |-> ""]

Success(report) == [status |-> "success", report |-> report]
Failure(message) == [status |-> "error", error_message |-> message]

NoException == [raised |-> FALSE, text |-> ""]

\* What a handler's try block ends with: a returned dict or a raised exception
Returned(value) == [raised |-> FALSE, text |-> "", value |-> value]
Raised(text) == [raised |-> TRUE, text |-> text, value |-> <<>>]

\* Mutant: no except clause, the exception leaves the handler
ExceptNothing(outcome, prefix) == outcome

\* except Exception as e: return {"status": "error", "error_message": prefix + str(e)}
Except(outcome, prefix) ==
    IF outcome.raised THEN Returned(Failure(prefix \o outcome.text)) ELSE outcome

---------------------------------------------------------------------------
(* get_weather *)

\* The try block of get_weather after requests.get
WeatherTry(c, o) ==
    IF o.kind = "exception" THEN Raised(o.text)
    ELSE IF o.status_code = 200 THEN
        IF o.body.shape = "not_json" THEN Raised(JSONDecodeErrorText)
        ELSE IF o.body.shape = "no_main" THEN Raised("'main'")
        ELSE
            LET temp_c == o.body.temp * 10
                temp_f == Fahrenheit(temp_c)
                weather_desc == o.body.description
            IN  Returned(Success(
                    "The weather in " \o c \o " is " \o weather_desc
                    \o " with a temperature of " \o Format1f(temp_c) \o "°C ("
                    \o Format1f(temp_f) \o "°F)."))
    ELSE Returned(Failure(
            "Weather information for '" \o c \o "' is not available. Error: "
            \o ToString(o.status_code)))

WeatherExcept(try) == Except(try, "Error getting weather data: ")

Request(endpoint) == [endpoint |-> endpoint, outcome |-> Pending]

\* Mutant: a request that fails is issued once more
ResolveAndRetry(cs, o) ==
    LET answered == [cs EXCEPT ![Len(cs)].outcome = o]
    IN  IF o.kind = "exception" \/ o.status_code # 200
        THEN Append(answered, Request(cs[Len(cs)].endpoint))
        ELSE answered

\* requests.get returns or raises: the request in flight is answered
Resolve(cs, o) == [cs EXCEPT ![Len(cs)].outcome = o]

GetWeatherCall(c) ==
    /\ pc = "idle"
    /\ op' = "get_weather"
    /\ city' = c
    /\ calls' = <<Request("weather")>>
    /\ pc' = "weather_wait"
    /\ UNCHANGED <<OPENWEATHER_API_KEY, local_utcoffset, daily_forecasts, caught, result, escaped>>

\* The invocation ends: try is how the try block ended, out what the
\* handler's except clause made of it.
Finish(try, out) ==
    /\ caught' = [raised |-> try.raised, text |-> try.text]
    /\ result' = out.value
    /\ escaped' = out.raised
    /\ pc' = "done"

GetWeatherReturn ==
    /\ pc = "weather_wait"
    /\ \E o \in WeatherOutcomes :
        /\ calls' = Resolve(calls, o)
        /\ LET try == WeatherTry(city, o) IN Finish(try, WeatherExcept(try))
    /\ UNCHANGED <<OPENWEATHER_API_KEY, local_utcoffset, op, city, daily_forecasts>>

---------------------------------------------------------------------------
(* get_current_time *)

KnownZones == {"Europe/Paris", "Europe/London"}
ZoneOffset(z) == IF z = "Europe/Paris" THEN 3600 ELSE 0
ZoneAbbr(z) == IF z = "Europe/Paris" THEN "CET" ELSE "GMT"

\* Mutant: the emptiness check is missing
GeoEmptyNever(body) == FALSE

\* `if not geo_data`
GeoEmpty(body) == body.shape = "empty_list"

\* Mutant: any truthy status passes
TzStatusTruthy(body) == body.status # ""

\* `if tz_data['status'] == 'OK'`
TzStatusOk(body) == body.status = "OK"

\* The try block from geo_response on: a return, a raise, or "go on to the
\* timezone request" (proceed).
GeoTry(c, o) ==
    IF o.kind = "exception" THEN [proceed |-> FALSE, out |-> Raised(o.text)]
    ELSE IF o.status_code # 200 THEN
        [proceed |-> FALSE, out |-> Returned(Failure("Could not find coordinates for " \o c))]
    ELSE IF o.body.shape = "not_json" THEN [proceed |-> FALSE, out |-> Raised(JSONDecodeErrorText)]
    ELSE IF GeoEmpty(o.body) THEN
        [proceed |-> FALSE, out |-> Returned(Failure("City '" \o c \o "' not found"))]
    ELSE IF o.body.shape = "no_lat" THEN [proceed |-> FALSE, out |-> Raised("'lat'")]
    ELSE [proceed |-> TRUE, out |-> Returned(<<>>)]

\* The try block from tz_response on; now is the reading of datetime.now
TzTry(c, o, now) ==
    IF o.kind = "exception" THEN Raised(o.text)
    ELSE IF o.status_code = 200 /\ o.body.shape = "not_json" THEN Raised(JSONDecodeErrorText)
    ELSE IF o.status_code = 200 /\ o.body.shape = "no_status" THEN Raised("'status'")
    ELSE IF o.status_code = 200 /\ TzStatusOk(o.body) THEN
        IF o.body.zoneName \notin KnownZones
        THEN Raised("'No time zone found with key " \o o.body.zoneName \o "'")
        ELSE LET off == ZoneOffset(o.body.zoneName)
             IN  Returned(Success(
                    "The current time in " \o c \o " is " \o StrfDate(now, off) \o " "
                    \o StrfTime(now, off) \o " " \o ZoneAbbr(o.body.zoneName)))
    ELSE Returned(Failure("Could not get timezone information for " \o c))

TimeExcept(try) == Except(try, "Error getting time data: ")

GetCurrentTimeCall(c) ==
    /\ pc = "idle"
    /\ op' = "get_current_time"
    /\ city' = c
    /\ calls' = <<Request("geo")>>
    /\ pc' = "geo_wait"
    /\ UNCHANGED <<OPENWEATHER_API_KEY, local_utcoffset, daily_forecasts, caught, result, escaped>>

GeoResponse ==
    /\ pc = "geo_wait"
    /\ \E o \in GeoOutcomes :
        LET g == GeoTry(city, o)
        IN  IF g.proceed
            THEN /\ calls' = Append(Resolve(calls, o), Request("timezone"))
                 /\ pc' = "tz_wait"
                 /\ UNCHANGED <<caught, result, escaped>>
            ELSE /\ calls' = Resolve(calls, o)
                 /\ Finish(g.out, TimeExcept(g.out))
    /\ UNCHANGED <<OPENWEATHER_API_KEY, local_utcoffset, op, city, daily_forecasts>>

TzResponse ==
    /\ pc = "tz_wait"
    /\ \E o \in TzOutcomes, now \in ClockInstants :
        /\ calls' = Resolve(calls, o)
        /\ LET try == TzTry(city, o, now) IN Finish(try, TimeExcept(try))
    /\ UNCHANGED <<OPENWEATHER_API_KEY, local_utcoffset, op, city, daily_forecasts>>

---------------------------------------------------------------------------
(* get_forecast *)

\* Python floats with the two infinities the fold starts from
Fin(v) == [inf |-> 0, v |-> v]
PosInf == [inf |-> 1, v |-> 0]
NegInf == [inf |-> -1, v |-> 0]
FloatLeq(a, b) ==
    \/ a.inf = -1
    \/ b.inf = 1
    \/ (a.inf = 0 /\ b.inf = 0 /\ a.v <= b.v)
\* Mutant: the running minimum is overwritten by each sample
FloatMinLast(a, b) == b

\* min(a, b) and max(a, b): the first argument wins a tie
FloatMin(a, b) == IF FloatLeq(a, b) THEN a ELSE b
FloatMax(a, b) == IF FloatLeq(b, a) THEN a ELSE b

\* Position of date among the keys of the dict daily (0: not a key)
KeyIndex(daily, date) ==
    IF \E i \in 1..Len(daily) : daily[i].date = date
    THEN CHOOSE i \in 1..Len(daily) : daily[i].date = date
    ELSE 0

\* One iteration of `for forecast in forecast_list`; daily is the dict
\* daily_forecasts as the sequence of its items in insertion order.
FoldSample(daily, forecast, offset) ==
    LET date == StrfDate(forecast.dt, offset)
        k == KeyIndex(daily, date)
        withKey == IF k = 0
                   THEN Append(daily, [date |-> date, temp_min |-> PosInf,
                                       temp_max |-> NegInf, descriptions |-> {}])
                   ELSE daily
        i == IF k = 0 THEN Len(withKey) ELSE k
    IN  [withKey EXCEPT
            ![i].temp_min = FloatMin(@, Fin(forecast.temp_min)),
            ![i].temp_max = FloatMax(@, Fin(forecast.temp_max)),
            ![i].descriptions = @ \cup {forecast.description}]

RECURSIVE FoldFrom(_, _, _)
FoldFrom(daily, forecast_list, offset) ==
    IF forecast_list = <<>> THEN daily
    ELSE FoldFrom(FoldSample(daily, Head(forecast_list), offset), Tail(forecast_list), offset)

\* daily_forecasts after the loop
DailyForecasts(forecast_list, offset) == FoldFrom(<<>>, forecast_list, offset)

\* Number of days reported: list(daily_forecasts.items())[:5]
MaxDays == 5

\* Mutant: the slice keeps the last days, [-5:]
LastDays(daily) ==
    SubSeq(daily, (IF Len(daily) < MaxDays THEN 1 ELSE Len(daily) - MaxDays + 1), Len(daily))

FirstDays(daily) == SubSeq(daily, 1, IF Len(daily) < MaxDays THEN Len(daily) ELSE MaxDays)

\* ", ".join(s) for a set s: iteration order of a set of str is not fixed,
\* so every order is possible.
RECURSIVE Joins(_)
Joins(s) ==
    IF s = {} THEN {""}
    ELSE UNION {
            IF s \ {x} = {} THEN {x} ELSE {x \o ", " \o r : r \in Joins(s \ {x})}
         : x \in s}

\* The text one day adds to forecast_report, for each possible join order.
\* The three pictographs of the source are written as :date:, :thermometer:
\* and :cloud:.
DayBlocks(forecast) ==
    LET lo == forecast.temp_min.v * 10
        hi == forecast.temp_max.v * 10
        temp_min_f == Fahrenheit(lo)
        temp_max_f == Fahrenheit(hi)
    IN  { ":date: " \o forecast.date \o ":\n"
          \o "   :thermometer: Temperatura: " \o Format1f(lo) \o "°C a " \o Format1f(hi) \o "°C "
          \o "(" \o Format1f(temp_min_f) \o "°F a " \o Format1f(temp_max_f) \o "°F)\n"
          \o "   :cloud: Condiciones: " \o conditions \o "\n\n"
        : conditions \in Joins(forecast.descriptions) }

RECURSIVE ReportsFrom(_, _)
ReportsFrom(reports, days) ==
    IF days = <<>> THEN reports
    ELSE ReportsFrom({r \o b : r \in reports, b \in DayBlocks(Head(days))}, Tail(days))

\* The values forecast_report can have after the report loop
ForecastReports(c, daily) ==
    ReportsFrom({"Pronóstico del tiempo para " \o c \o ":\n\n"}, FirstDays(daily))

\* Mutant: every failed status gets the "city not found" text
ForecastErrorMsgNotFound(c, status_code) ==
    IF status_code = 401 THEN "API key inválida o no configurada correctamente"
    ELSE "No se encontró la ciudad: " \o c

\* error_msg of the else branch
ForecastErrorMsg(c, status_code) ==
    IF status_code = 401 THEN "API key inválida o no configurada correctamente"
    ELSE IF status_code = 404 THEN "No se encontró la ciudad: " \o c
    ELSE "Forecast information for '" \o c \o "' is not available. Error: "
         \o ToString(status_code)

\* The ways the try block of get_forecast can end after requests.get, each
\* with the value daily_forecasts then has
ForecastTry(c, o, offset) ==
    IF o.kind = "exception" THEN {[daily |-> <<>>, try |-> Raised(o.text)]}
    ELSE IF o.status_code = 200 THEN
        IF o.body.shape = "not_json" THEN {[daily |-> <<>>, try |-> Raised(JSONDecodeErrorText)]}
        ELSE IF o.body.shape = "no_list" THEN {[daily |-> <<>>, try |-> Raised("'list'")]}
        ELSE LET daily == DailyForecasts(o.body.list, offset)
             IN  {[daily |-> daily, try |-> Returned(Success(r))]
                    : r \in ForecastReports(c, daily)}
    ELSE {[daily |-> <<>>, try |-> Returned(Failure(ForecastErrorMsg(c, o.status_code)))]}

ForecastExcept(try) == Except(try, "Error getting forecast data: ")

\* Mutant: `if OPENWEATHER_API_KEY is None`
KeyIsNone(key) == key = None

\* `if not OPENWEATHER_API_KEY`
KeyMissing(key) == key = None \/ key = ""

\* The try block of get_forecast up to requests.get
ForecastPrecheck(key) ==
    IF KeyMissing(key)
    THEN [proceed |-> FALSE,
          out |-> Returned(Failure("OpenWeather API key no está configurada"))]
    ELSE [proceed |-> TRUE, out |-> Returned(<<>>)]

GetForecastCall(c) ==
    /\ pc = "idle"
    /\ op' = "get_forecast"
    /\ city' = c
    /\ LET p == ForecastPrecheck(OPENWEATHER_API_KEY)
       IN  IF p.proceed
           THEN /\ calls' = <<Request("forecast")>>
                /\ pc' = "forecast_wait"
                /\ UNCHANGED <<caught, result, escaped>>
           ELSE /\ calls' = <<>>
                /\ Finish(p.out, ForecastExcept(p.out))
    /\ UNCHANGED <<OPENWEATHER_API_KEY, local_utcoffset, daily_forecasts>>

\* outcomes: the answers the mocked forecast endpoint can give
ForecastResponse(outcomes) ==
    /\ pc = "forecast_wait"
    /\ \E o \in outcomes :
        /\ calls' = Resolve(calls, o)
        /\ \E f \in ForecastTry(city, o, local_utcoffset) :
            /\ daily_forecasts' = f.daily
            /\ Finish(f.try, ForecastExcept(f.try))
    /\ UNCHANGED <<OPENWEATHER_API_KEY, local_utcoffset, op, city>>

\* Mocked forecast responses
RECURSIVE SeqsOfLen(_, _)
SeqsOfLen(S, n) ==
    IF n = 0 THEN {<<>>} ELSE {Append(q, x) : q \in SeqsOfLen(S, n - 1), x \in S}
SeqsUpTo(S, n) == UNION {SeqsOfLen(S, k) : k \in 0..n}

ForecastBody(shape, list) == [shape |-> shape, list |-> list]
ForecastResponses(lists) ==
    TransportFailures \cup ErrorResponses
    \cup {Response(200, ForecastBody(s, <<>>)) : s \in {"not_json", "no_list"}}
    \cup {Response(200, ForecastBody("ok", l)) : l \in lists}

\* General mock: samples at 01:00 UTC of two consecutive days
Samples ==
    {[dt |-> BaseDt + d * SecondsPerDay + 3600, temp_min |-> 50, temp_max |-> 121,
      description |-> w] : d \in 0..1, w \in Descriptions}
ForecastOutcomes == ForecastResponses(SeqsUpTo(Samples, MaxSamples))

\* Aggregation mock: samples at 13:00 UTC of one day and 01:00 UTC of the
\* next (two calendar days on a UTC clock, one on a clock five hours behind),
\* with three (temp_min, temp_max) pairs, one of them with temp_min above
\* temp_max.
AggDts == {BaseDt + 46800, BaseDt + SecondsPerDay + 3600}
AggRanges == {<<-25, 40>>, <<40, 130>>, <<130, -25>>}
AggSamples ==
    {[dt |-> t, temp_min |-> r[1], temp_max |-> r[2], description |-> w]
        : t \in AggDts, r \in AggRanges, w \in Descriptions}
AggOutcomes == {Response(200, ForecastBody("ok", l)) : l \in SeqsUpTo(AggSamples, MaxAggSamples)}

\* Ordering mock: one sample at noon UTC for each of NumDays days, in every
\* order; every rotation of the days, forwards and backwards, with the day
\* listed first sampled twice (at once, or again at the end); and every list
\* of at most three such samples.
DaySample(d) ==
    [dt |-> BaseDt + d * SecondsPerDay + 43200, temp_min |-> 10 * d, temp_max |-> 10 * d + 55,
     description |-> "clear sky"]
DayOrders == {[i \in 1..NumDays |-> DaySample(p[i] - 1)] : p \in Permutations(1..NumDays)}
Rotations ==
    {[i \in 1..NumDays |-> DaySample((k + i) % NumDays)] : k \in 1..NumDays}
    \cup {[i \in 1..NumDays |-> DaySample((k + NumDays - i) % NumDays)] : k \in 1..NumDays}
OrderLists ==
    DayOrders
    \cup {<<l[1]>> \o l : l \in Rotations}
    \cup {Append(l, l[1]) : l \in Rotations}
    \cup SeqsUpTo({DaySample(d) : d \in 0..(NumDays - 1)}, 3)
OrderOutcomes == {Response(200, ForecastBody("ok", l)) : l \in OrderLists}

\* The forecast query of run_conversation
MockCity == "Cochabamba"

---------------------------------------------------------------------------
(* The caller takes the result; the next invocation starts from scratch *)

Return ==
    /\ pc = "done"
    /\ pc' = "idle"
    /\ op' = "none"
    /\ city' = ""
    /\ calls' = <<>>
    /\ daily_forecasts' = <<>>
    /\ caught' = NoException
    /\ result' = <<>>
    /\ escaped' = FALSE
    /\ UNCHANGED <<OPENWEATHER_API_KEY, local_utcoffset>>

InitWith(offsets) ==
    /\ OPENWEATHER_API_KEY \in ApiKeys
    /\ local_utcoffset \in offsets
    /\ pc = "idle"
    /\ op = "none"
    /\ city = ""
    /\ calls = <<>>
    /\ daily_forecasts = <<>>
    /\ caught = NoException
    /\ result = <<>>
    /\ escaped = FALSE

Init == InitWith(LocalOffsets)

Next ==
    \/ \E c \in Cities : GetWeatherCall(c)
    \/ GetWeatherReturn
    \/ \E c \in Cities : GetCurrentTimeCall(c)
    \/ GeoResponse
    \/ TzResponse
    \/ \E c \in Cities : GetForecastCall(c)
    \/ ForecastResponse(ForecastOutcomes)
    \/ Return

Spec == Init /\ [][Next]_vars

\* get_forecast alone, against the aggregation mock
NextAggregate ==
    \/ GetForecastCall(MockCity)
    \/ ForecastResponse(AggOutcomes)
    \/ Return

SpecAggregate == Init /\ [][NextAggregate]_vars

\* get_forecast alone, against the ordering mock
NextOrder ==
    \/ GetForecastCall(MockCity)
    \/ ForecastResponse(OrderOutcomes)
    \/ Return

\* The ordering mock's samples lie at noon UTC: the day of each is the same
\* on every clock of LocalOffsets, so one clock is drawn.
InitOrder == InitWith({0})

SpecOrder == InitOrder /\ [][NextOrder]_vars

---------------------------------------------------------------------------
(* Vocabulary of the properties *)

NumCalls == Len(calls)
Outcome(i) == calls[i].outcome
InFlight == {i \in 1..NumCalls : Outcome(i).kind = "pending"}
Is200(o) == o.kind = "response" /\ o.status_code = 200
IsNon200(o) == o.kind = "response" /\ o.status_code # 200
HasFailed(o) == o.kind = "exception" \/ IsNon200(o)
TimezoneCalls == {i \in 1..NumCalls : calls[i].endpoint = "timezone"}
Done(tool) == pc = "done" /\ op = tool
IsSuccess == "status" \in DOMAIN result /\ result.status = "success"
IsFailure == "status" \in DOMAIN result /\ result.status = "error"
\* The geocoding answer is a JSON list with at least one element
GeoListNonEmpty(o) == Is200(o) /\ o.body.shape \in {"no_lat", "ok"}
GeoListEmpty(o) == Is200(o) /\ o.body.shape = "empty_list"

\* C1: within an invocation of get_current_time at most one HTTP call is in
\* flight at any time; a call to the timezone endpoint exists only as the
\* second call, after the geocoding call was answered with status 200 and a
\* non-empty list; and an invocation whose geocoding call was answered with
\* an empty list or a status other than 200 ends with no timezone call.
C1_GeocodingBeforeTimezone ==
    /\ Cardinality(InFlight) <= 1
    /\ \A i \in TimezoneCalls :
        /\ op = "get_current_time"
        /\ i = 2
        /\ calls[1].endpoint = "geo"
        /\ GeoListNonEmpty(Outcome(1))
    /\ (op = "get_current_time" /\ NumCalls >= 1
        /\ (GeoListEmpty(Outcome(1)) \/ IsNon200(Outcome(1))))
        => (pc = "done" /\ TimezoneCalls = {})

\* C1 witness: get_current_time has returned after an empty geocoding list,
\* having made the geocoding call only.
C1_Witness ==
    /\ Done("get_current_time")
    /\ NumCalls = 1
    /\ GeoListEmpty(Outcome(1))
    /\ TimezoneCalls = {}

\* C2: when OPENWEATHER_API_KEY is absent or empty, an invocation of
\* get_forecast has returned a Failure and has made no HTTP call.
C2_NoCredentialNoCall ==
    (op = "get_forecast" /\ OPENWEATHER_API_KEY \in {None, ""})
        => (pc = "done" /\ calls = <<>> /\ ~escaped /\ IsFailure)

\* C2 witness: get_forecast invoked with the empty string as the key.
C2_Witness ==
    /\ Done("get_forecast")
    /\ OPENWEATHER_API_KEY = ""
    /\ calls = <<>>

\* The error message holds the decimal digits of the status the call got
MessageHasStatus == Contains(result.error_message, ToString(Outcome(NumCalls).status_code))

\* C3 as stated: whenever get_weather or get_forecast returns after a non-200
\* status, the result is a Failure whose message contains the status code.
C3_StatusInEveryMessage ==
    ((Done("get_weather") \/ Done("get_forecast")) /\ NumCalls = 1 /\ IsNon200(Outcome(1)))
        => (IsFailure /\ MessageHasStatus)

\* C3 amended: after a non-200 status both return a Failure; get_weather's
\* message contains the status code, and so does get_forecast's when the
\* status is neither 401 nor 404.
C3_StatusInMessageBut401And404 ==
    ((Done("get_weather") \/ Done("get_forecast")) /\ NumCalls = 1 /\ IsNon200(Outcome(1)))
        => /\ IsFailure
           /\ (op = "get_weather" \/ Outcome(1).status_code \notin {401, 404})
                => MessageHasStatus

\* C3 witness: get_forecast has returned after a 500 and its message holds 500.
C3_Witness ==
    /\ Done("get_forecast")
    /\ NumCalls = 1
    /\ IsNon200(Outcome(1))
    /\ Outcome(1).status_code = 500
    /\ IsFailure
    /\ Contains(result.error_message, "500")

\* Provider behaviour that makes the handler's try block raise
ProviderRaises ==
    /\ NumCalls >= 1
    /\ LET o == Outcome(NumCalls)
       IN  \/ o.kind = "exception"
           \/ (Is200(o) /\ o.body.shape \in {"not_json", "no_main", "no_lat", "no_status", "no_list"})
           \/ (Is200(o) /\ calls[NumCalls].endpoint = "timezone" /\ o.body.shape = "ok"
               /\ o.body.status = "OK" /\ o.body.zoneName \notin {"Europe/Paris", "Europe/London"})

\* C4: every answer of a provider either ends the invocation or is followed
\* by the invocation's next request; every invocation that has ended has
\* returned a result dict, no exception having reached the caller; a
\* connection failure, a 200 body that is not JSON or lacks the expected
\* fields, and an unknown timezone name raise inside the handler; and
\* whenever an exception was raised the result is a Failure whose message
\* contains the exception's text.
C4_NeverRaises ==
    /\ (NumCalls >= 1 /\ Outcome(NumCalls).kind # "pending") => pc = "done"
    /\ pc = "done" =>
        /\ ~escaped
        /\ IsSuccess \/ IsFailure
        /\ ProviderRaises => caught.raised
        /\ caught.raised => (IsFailure /\ caught.text # ""
                             /\ Contains(result.error_message, caught.text))

\* C4 witness: get_current_time has returned a Failure after the timezone
\* provider named a zone the zone database does not know.
C4_Witness ==
    /\ Done("get_current_time")
    /\ NumCalls = 2
    /\ Is200(Outcome(2))
    /\ Outcome(2).body.shape = "ok"
    /\ Outcome(2).body.zoneName = "Mars/Phobos"
    /\ caught.raised
    /\ IsFailure

\* C5: every returned result is either {status: "success", report} or
\* {status: "error", error_message}, with no other key and no other status.
C5_ExactlyOneVariant ==
    pc = "done" =>
        \/ (IsSuccess /\ DOMAIN result = {"status", "report"})
        \/ (IsFailure /\ DOMAIN result = {"status", "error_message"})

\* C5 witness: get_forecast has returned a success dict.
C5_Witness ==
    /\ Done("get_forecast")
    /\ IsSuccess
    /\ DOMAIN result = {"status", "report"}

\* C7: no retry.  A call is followed by another only if it was answered with
\* status 200, and no endpoint is called twice; get_weather makes exactly one
\* call, get_forecast at most one, get_current_time at most two (geocoding,
\* then timezone); and once a call has failed (exception or non-200 status)
\* the invocation has ended with a Failure and that call is its last.
C7_NoRetry ==
    /\ \A i \in 1..(NumCalls - 1) : Is200(Outcome(i))
    /\ \A i, j \in 1..NumCalls : calls[i].endpoint = calls[j].endpoint => i = j
    /\ op = "get_weather" => NumCalls = 1
    /\ op = "get_forecast" => NumCalls <= 1
    /\ op = "get_current_time" =>
        /\ NumCalls \in {1, 2}
        /\ calls[1].endpoint = "geo"
        /\ NumCalls = 2 => calls[2].endpoint = "timezone"
    /\ \A i \in 1..NumCalls : HasFailed(Outcome(i)) => (i = NumCalls /\ pc = "done" /\ IsFailure)

\* C7 witness: get_current_time has returned a Failure after its second call
\* (the timezone call) failed in transport.
C7_Witness ==
    /\ Done("get_current_time")
    /\ NumCalls = 2
    /\ Outcome(2).kind = "exception"
    /\ IsFailure

\* round(C * 9/5 + 32, 1) for C = c10 / 10, in tenths: the multiple of 1/10
\* nearest to (9 * c10 + 1600) / 50
RoundedFahrenheit10(c10) ==
    LET n == 9 * c10 + 1600
    IN  CHOOSE r \in ((n \div 5) - 1)..((n \div 5) + 1) : Abs(5 * r - n) <= 2

\* A number of tenths written with one decimal; negative says whether the
\* number it was rounded from is below zero
OneDecimal(tenths, negative) ==
    (IF negative THEN "-" ELSE "") \o ToString(Abs(tenths) \div 10) \o "."
    \o ToString(Abs(tenths) % 10)

\* C8: whenever get_weather returns after a 200 response of the expected
\* shape with Celsius reading C, the result is a Success whose report is the
\* sentence of the spec with C to one decimal and, as Fahrenheit value,
\* round(C * 9/5 + 32, 1); for London, 15.0 and "clear sky" it is the spec's
\* example sentence.
C8_FahrenheitRounded ==
    (Done("get_weather") /\ Is200(Outcome(1)) /\ Outcome(1).body.shape = "ok") =>
        LET c10 == Outcome(1).body.temp
            desc == Outcome(1).body.description
        IN  /\ IsSuccess
            /\ result.report =
                "The weather in " \o city \o " is " \o desc \o " with a temperature of "
                \o OneDecimal(c10, c10 < 0) \o "°C ("
                \o OneDecimal(RoundedFahrenheit10(c10), 9 * c10 + 1600 < 0) \o "°F)."
            /\ (city = "London" /\ c10 = 150 /\ desc = "clear sky") =>
                result.report =
                    "The weather in London is clear sky with a temperature of 15.0°C (59.0°F)."

\* C8 witness: the spec's example, get_weather("London") with 15.0 and
\* "clear sky", has returned a Success.
C8_Witness ==
    /\ Done("get_weather")
    /\ city = "London"
    /\ Is200(Outcome(1))
    /\ Outcome(1).body.shape = "ok"
    /\ Outcome(1).body.temp = 150
    /\ Outcome(1).body.description = "clear sky"
    /\ IsSuccess

\* C9: get_current_time returns a Success exactly when the geocoding call
\* was answered 200 with a non-empty list, the timezone call was made and
\* answered 200 with status "OK", and no exception was raised; otherwise it
\* returns a Failure.
C9_SuccessIff ==
    Done("get_current_time") =>
        /\ IsSuccess \/ IsFailure
        /\ IsSuccess <=>
            /\ GeoListNonEmpty(Outcome(1))
            /\ NumCalls = 2
            /\ Is200(Outcome(2))
            /\ Outcome(2).body.shape = "ok"
            /\ Outcome(2).body.status = "OK"
            /\ ~caught.raised

\* C9 witness: get_current_time("Paris") has returned a Success.
C9_Witness ==
    /\ Done("get_current_time")
    /\ city = "Paris"
    /\ NumCalls = 2
    /\ Is200(Outcome(2))
    /\ Outcome(2).body.zoneName = "Europe/Paris"
    /\ IsSuccess

---------------------------------------------------------------------------
(* Reading a forecast report back *)

DayMarker == ":date: "
\* Where the day-blocks of report r start
BlockStarts(r) == {i \in 1..(Len(r) - Len(DayMarker) + 1) :
                        SubSeq(r, i, i + Len(DayMarker) - 1) = DayMarker}
\* The k-th smallest element of the set P of numbers
Kth(P, k) == CHOOSE i \in P : Cardinality({j \in P : j <= i}) = k
\* The day-blocks of r, in order of appearance
Blocks(r) ==
    LET P == BlockStarts(r)
        n == Cardinality(P)
    IN  [k \in 1..n |-> SubSeq(r, Kth(P, k), IF k = n THEN Len(r) ELSE Kth(P, k + 1) - 1)]
\* The YYYY-MM-DD that heads a day-block
BlockDate(block) == SubSeq(block, Len(DayMarker) + 1, Len(DayMarker) + 10)
\* Number of places where w occurs in text
Occurrences(text, w) ==
    Cardinality({i \in 1..(Len(text) - Len(w) + 1) : SubSeq(text, i, i + Len(w) - 1) = w})

\* The samples of the answered forecast call and their local calendar days
SampleList == Outcome(1).body.list
SampleDayList == [i \in 1..Len(SampleList) |-> StrfDate(SampleList[i].dt, local_utcoffset)]
SampleDay(i) == SampleDayList[i]
SampleDays == {SampleDay(i) : i \in 1..Len(SampleList)}
\* Indices of the entries of the list of days that are the first of their day
FirstOfDay(days) == {i \in 1..Len(days) : \A j \in 1..(i - 1) : days[j] # days[i]}
ForecastAnswered ==
    Done("get_forecast") /\ NumCalls = 1 /\ Is200(Outcome(1)) /\ Outcome(1).body.shape = "ok"

\* C6: whenever get_forecast returns after a 200 response, the report holds
\* one day-block for each distinct calendar day of the samples, at most 5 of
\* them, and the k-th block is that of the k-th day in order of first
\* appearance in the sample list, however the samples are ordered; with
\* samples of 7 distinct days the report holds exactly 5 day-blocks.
C6_FiveDaysFirstSeen ==
    ForecastAnswered =>
        /\ IsSuccess
        /\ LET blocks == Blocks(result.report)
               list == SampleDayList
               first == FirstOfDay(list)
               days == Cardinality(first)
           IN  /\ Len(blocks) = (IF days < 5 THEN days ELSE 5)
               /\ \A k \in 1..Len(blocks) : BlockDate(blocks[k]) = list[Kth(first, k)]
               /\ days = 7 => Len(blocks) = 5

\* C6 witness: get_forecast has returned after samples of 7 distinct days,
\* one day sampled twice, the first sample being neither of the earliest nor
\* of the latest day, and the report holds 5 day-blocks.
C6_Witness ==
    /\ ForecastAnswered
    /\ Cardinality(SampleDays) = 7
    /\ Len(SampleList) = 8
    /\ SampleDay(1) = "2024-01-04"
    /\ SampleDay(2) = "2024-01-03"
    /\ SampleDay(8) = SampleDay(1)
    /\ IsSuccess
    /\ Len(Blocks(result.report)) = 5

SetMin(T) == CHOOSE x \in T : \A y \in T : x <= y
SetMax(T) == CHOOSE x \in T : \A y \in T : y <= x
\* Indices of the samples of the day of aggregate e
SamplesOf(e) == {i \in 1..Len(SampleList) : SampleDay(i) = e.date}

\* Each day has one aggregate; its minimum is the least temp_min and its
\* maximum the greatest temp_max of that day's samples, its conditions are
\* the descriptions of that day's samples; and each reported day's block
\* names each of these descriptions once and no other description.
AggregatesPerDay ==
    /\ {daily_forecasts[k].date : k \in 1..Len(daily_forecasts)} = SampleDays
    /\ Len(daily_forecasts) = Cardinality(SampleDays)
    /\ \A k \in 1..Len(daily_forecasts) :
        LET e == daily_forecasts[k]
        IN  /\ e.temp_min = Fin(SetMin({SampleList[i].temp_min : i \in SamplesOf(e)}))
            /\ e.temp_max = Fin(SetMax({SampleList[i].temp_max : i \in SamplesOf(e)}))
            /\ e.descriptions = {SampleList[i].description : i \in SamplesOf(e)}
    /\ IsSuccess
    /\ LET blocks == Blocks(result.report)
       IN  \A k \in 1..Len(blocks) :
            /\ BlockDate(blocks[k]) = daily_forecasts[k].date
            /\ \A w \in Descriptions :
                Occurrences(blocks[k], w) =
                    (IF \E i \in SamplesOf(daily_forecasts[k]) : SampleList[i].description = w
                     THEN 1 ELSE 0)

\* C10 as stated: the aggregates are the per-day minimum of temp_min and
\* maximum of temp_max, the conditions are the day's distinct descriptions,
\* each listed once, and every day's minimum is at most its maximum.
C10_MinAtMostMaxAlways ==
    ForecastAnswered =>
        /\ AggregatesPerDay
        /\ \A k \in 1..Len(daily_forecasts) :
            daily_forecasts[k].temp_min.v <= daily_forecasts[k].temp_max.v

\* C10 amended: the aggregates are the per-day minimum of temp_min and
\* maximum of temp_max, the conditions are the day's distinct descriptions,
\* each listed once, and the minimum is at most the maximum for every day
\* one of whose samples has temp_min <= temp_max.
C10_MinAtMostMaxOfOrderedSamples ==
    ForecastAnswered =>
        /\ AggregatesPerDay
        /\ \A k \in 1..Len(daily_forecasts) :
            (\E i \in SamplesOf(daily_forecasts[k]) :
                SampleList[i].temp_min <= SampleList[i].temp_max)
            => daily_forecasts[k].temp_min.v <= daily_forecasts[k].temp_max.v

\* C10 witness: get_forecast has returned after three samples, the first and
\* the third of one day and the second of another, the first day's samples
\* differing in temp_min, temp_max and description.
C10_Witness ==
    /\ ForecastAnswered
    /\ Len(SampleList) = 3
    /\ SampleDay(1) = SampleDay(3)
    /\ SampleDay(2) # SampleDay(1)
    /\ SampleList[1].temp_min = 40
    /\ SampleList[1].temp_max = 130
    /\ SampleList[3].temp_min = -25
    /\ SampleList[3].temp_max = 40
    /\ SampleList[1].description # SampleList[3].description
    /\ Len(daily_forecasts) = 2
    /\ daily_forecasts[1].temp_min = Fin(-25)
    /\ daily_forecasts[1].temp_max = Fin(130)
    /\ IsSuccess

====
